---- MODULE Spec2Model ----
(***************************************************************************)
(* Model of src/inpainting.py: the quadrant split / diagonal swap /        *)
(* recombine geometry, the centre cross mask and the make_texture_seamless *)
(* pipeline around one external inpainting call.                           *)
(*                                                                         *)
(* An image is a record [size |-> <<width, height>>, px |-> f] where f     *)
(* maps every position <<x, y>> with 0 <= x < width, 0 <= y < height to a  *)
(* colour.  Colours are integers: BLACK (0) is what Image.new allocates.   *)
(* Working images are RGB, as combine_quadrants allocates them.            *)
(***************************************************************************)
EXTENDS Integers, Sequences, FiniteSets

VARIABLES pc, original_image, quadrants, swapped_quadrants, swapped_image,
          mask, inpainted_image, inpainted_quadrants, final_quadrants,
          final_image, output_file, returned, error, api_calls, trace,
          u_pc, u_image, u_width, u_quadrants, u_swapped, u_swapped_twice,
          u_roundtrip, u_swapped_image, u_mask

pipe_vars == <<pc, original_image, quadrants, swapped_quadrants, swapped_image,
               mask, inpainted_image, inpainted_quadrants, final_quadrants,
               final_image, output_file, returned, error, api_calls, trace>>

unit_vars == <<u_pc, u_image, u_width, u_quadrants, u_swapped, u_swapped_twice,
               u_roundtrip, u_swapped_image, u_mask>>

vars == <<pipe_vars, unit_vars>>

(* ---------------------------------------------------------------- bounds *)

\* largest side of the exhaustively enumerated small images
MaxSide == 6

\* largest band width handed to create_center_mask by the unit harness
MaxBand == 5

\* number of large square sides (just above the pipeline's band width)
MaxBig == 2

(* ------------------------------------------------------------- constants *)

\* the band width make_texture_seamless passes to create_center_mask
MaskWidth == 64

\* Image.new(mode, size) with no colour: all zero
BLACK == 0

\* fill=255 = white (masked)
MASKED == 255

\* a colour the inpainting service invents; no input image contains it
INPAINT == -1

(* ---------------------------------------------------------------- images *)

Pos(size) == (0 .. size[1] - 1) \X (0 .. size[2] - 1)

NewImage(size, fill) == [size |-> size, px |-> [p \in Pos(size) |-> fill]]

NoImage == [size |-> <<0, 0>>, px |-> [p \in {} |-> BLACK]]

NoQuadrants == << >>

\* image.crop((left, upper, right, lower)); outside the image crop yields 0
Crop(image, box) ==
    LET size == <<box[3] - box[1], box[4] - box[2]>>
    IN  [size |-> size,
         px   |-> [p \in Pos(size) |->
                     LET q == <<p[1] + box[1], p[2] + box[2]>>
                     IN  IF q \in Pos(image.size) THEN image.px[q] ELSE BLACK]]

\* dest.paste(src, (x, y)): the part of src that falls inside dest overwrites it
Paste(dest, src, off) ==
    [size |-> dest.size,
     px   |-> [p \in Pos(dest.size) |->
                 LET q == <<p[1] - off[1], p[2] - off[2]>>
                 IN  IF q \in Pos(src.size) THEN src.px[q] ELSE dest.px[p]]]

\* ImageDraw.rectangle((x0, y0, x1, y1), fill): both corners are inclusive
Rectangle(image, box, fill) ==
    [size |-> image.size,
     px   |-> [p \in Pos(image.size) |->
                 IF /\ box[1] <= p[1] /\ p[1] <= box[3]
                    /\ box[2] <= p[2] /\ p[2] <= box[4]
                 THEN fill ELSE image.px[p]]]

(* ------------------------------------------------------- the pure helpers *)

split_image_into_quadrants_ceil(image) ==
    LET width       == image.size[1]
        height      == image.size[2]
        half_width  == (width + 1) \div 2
        half_height == (height + 1) \div 2
    IN  << Crop(image, <<0, 0, half_width, half_height>>),
           Crop(image, <<half_width, 0, width, half_height>>),
           Crop(image, <<0, half_height, half_width, height>>),
           Crop(image, <<half_width, half_height, width, height>> ) >>

split_image_into_quadrants(image) ==
    LET width       == image.size[1]
        height      == image.size[2]
        half_width  == width \div 2
        half_height == height \div 2
        top_left     == Crop(image, <<0, 0, half_width, half_height>>)
        top_right    == Crop(image, <<half_width, 0, width, half_height>>)
        bottom_left  == Crop(image, <<0, half_height, half_width, height>>)
        bottom_right == Crop(image, <<half_width, half_height, width, height>>)
    IN  <<top_left, top_right, bottom_left, bottom_right>>

swap_quadrants_rotated(qs) == <<qs[2], qs[4], qs[1], qs[3]>>

swap_quadrants_diagonally(qs) ==
    LET top_left     == qs[1]
        top_right    == qs[2]
        bottom_left  == qs[3]
        bottom_right == qs[4]
    IN  <<bottom_right, bottom_left, top_right, top_left>>

combine_quadrants_shared_offset(qs, output_size) ==
    LET half_width  == output_size[1] \div 2
        half_height == output_size[2] \div 2
        c0 == NewImage(output_size, BLACK)
        c1 == Paste(c0, qs[1], <<0, 0>>)
        c2 == Paste(c1, qs[2], <<half_width, 0>>)
        c3 == Paste(c2, qs[3], <<0, half_height>>)
    IN  Paste(c3, qs[4], <<half_width, 0>>)

combine_quadrants(qs, output_size) ==
    LET top_left     == qs[1]
        top_right    == qs[2]
        bottom_left  == qs[3]
        bottom_right == qs[4]
        half_width   == output_size[1] \div 2
        half_height  == output_size[2] \div 2
        c0 == NewImage(output_size, BLACK)
        c1 == Paste(c0, top_left, <<0, 0>>)
        c2 == Paste(c1, top_right, <<half_width, 0>>)
        c3 == Paste(c2, bottom_left, <<0, half_height>>)
    IN  Paste(c3, bottom_right, <<half_width, half_height>>)

create_center_mask_horizontal_only(size, width) ==
    LET half_height     == size[2] \div 2
        half_mask_width == width \div 2
    IN  Rectangle(NewImage(size, 0),
                  <<0, half_height - half_mask_width,
                    size[1], half_height + half_mask_width>>, MASKED)

create_center_mask(size, width) ==
    LET half_width      == size[1] \div 2
        half_height     == size[2] \div 2
        half_mask_width == width \div 2
        m0 == NewImage(size, 0)
        m1 == Rectangle(m0, <<0, half_height - half_mask_width,
                              size[1], half_height + half_mask_width>>, MASKED)
    IN  Rectangle(m1, <<half_width - half_mask_width, 0,
                        half_width + half_mask_width, size[2]>>, MASKED)

(* ------------------------------------------------------------ the inputs *)

\* every pixel carries its own colour (1 + x + width * y), none of them BLACK
Labelled(size) == [size |-> size,
                   px   |-> [p \in Pos(size) |-> 1 + p[1] + size[1] * p[2]]]

Images(size) == {Labelled(size), NewImage(size, BLACK), NewImage(size, 1)}

SmallSizes == (1 .. MaxSide) \X (1 .. MaxSide)

BigSizes == {<<MaskWidth + 2 * k, MaskWidth + 2 * k>> : k \in 1 .. MaxBig}

InputImages == UNION {Images(size) : size \in SmallSizes \cup BigSizes}

(* ------------------------------------------------- the external inpainter *)

\* every masked pixel regenerated, every unmasked pixel preserved
MaskFill(image, m) ==
    [size |-> image.size,
     px   |-> [p \in Pos(image.size) |->
                 IF m.px[p] = MASKED THEN INPAINT ELSE image.px[p]]]

\* a service that honours neither the mask nor the size of its input
Regenerated(image) == NewImage(<<image.size[1] + 1, image.size[2] + 1>>, INPAINT)

\* the images a 200 response can carry back
Artifacts(image, m) ==
    {image, MaskFill(image, m), NewImage(image.size, INPAINT), Regenerated(image)}

\* requests.post(...) and the status check: the response is the service's choice
inpaint_with_stability_api(image, m) ==
    {[status_code |-> 200, image |-> a] : a \in Artifacts(image, m)}
    \cup {[status_code |-> 500, image |-> NoImage]}

(* ---------------------------------------------------------- the pipeline *)

IsSquare_always(image) == TRUE

IsSquare(image) == image.size[1] = image.size[2]

PipeInit ==
    /\ pc = "start"
    /\ original_image \in InputImages
    /\ quadrants = NoQuadrants
    /\ swapped_quadrants = NoQuadrants
    /\ swapped_image = NoImage
    /\ mask = NoImage
    /\ inpainted_image = NoImage
    /\ inpainted_quadrants = NoQuadrants
    /\ final_quadrants = NoQuadrants
    /\ final_image = NoImage
    /\ output_file = NoImage
    /\ returned = NoImage
    /\ error = "none"
    /\ api_calls = 0
    /\ trace = << >>

\* Image.open, width/height, and the squareness check
CheckSquare ==
    /\ pc = "start"
    /\ trace' = Append(trace, "check")
    /\ IF IsSquare(original_image)
       THEN /\ pc' = "checked"
            /\ error' = error
       ELSE /\ pc' = "failed"
            /\ error' = "ValueError"
    /\ UNCHANGED unit_vars
    /\ UNCHANGED <<original_image, quadrants, swapped_quadrants, swapped_image,
                   mask, inpainted_image, inpainted_quadrants, final_quadrants,
                   final_image, output_file, returned, api_calls>>

SplitOriginal ==
    /\ pc = "checked"
    /\ quadrants' = split_image_into_quadrants(original_image)
    /\ pc' = "split"
    /\ trace' = Append(trace, "split")
    /\ UNCHANGED unit_vars
    /\ UNCHANGED <<original_image, swapped_quadrants, swapped_image, mask,
                   inpainted_image, inpainted_quadrants, final_quadrants,
                   final_image, output_file, returned, error, api_calls>>

SwapOriginal ==
    /\ pc = "split"
    /\ swapped_quadrants' = swap_quadrants_diagonally(quadrants)
    /\ pc' = "swapped"
    /\ trace' = Append(trace, "swap")
    /\ UNCHANGED unit_vars
    /\ UNCHANGED <<original_image, quadrants, swapped_image, mask,
                   inpainted_image, inpainted_quadrants, final_quadrants,
                   final_image, output_file, returned, error, api_calls>>

CombineSwapped ==
    /\ pc = "swapped"
    /\ swapped_image' = combine_quadrants(swapped_quadrants, original_image.size)
    /\ pc' = "combined"
    /\ trace' = Append(trace, "combine")
    /\ UNCHANGED unit_vars
    /\ UNCHANGED <<original_image, quadrants, swapped_quadrants, mask,
                   inpainted_image, inpainted_quadrants, final_quadrants,
                   final_image, output_file, returned, error, api_calls>>

CreateMask ==
    /\ pc = "combined"
    /\ mask' = create_center_mask(original_image.size, MaskWidth)
    /\ pc' = "masked"
    /\ trace' = Append(trace, "mask")
    /\ UNCHANGED unit_vars
    /\ UNCHANGED <<original_image, quadrants, swapped_quadrants, swapped_image,
                   inpainted_image, inpainted_quadrants, final_quadrants,
                   final_image, output_file, returned, error, api_calls>>

Inpaint_with_fallback ==
    /\ pc = "masked"
    /\ api_calls' = api_calls + 1
    /\ trace' = Append(trace, "inpaint")
    /\ \E response \in inpaint_with_stability_api(swapped_image, mask) :
          IF response.status_code # 200
          THEN /\ pc' = "inpainted"
               /\ error' = "Exception"
               /\ inpainted_image' = swapped_image
          ELSE /\ pc' = "inpainted"
               /\ error' = error
               /\ inpainted_image' = response.image
    /\ UNCHANGED unit_vars
    /\ UNCHANGED <<original_image, quadrants, swapped_quadrants, swapped_image,
                   mask, inpainted_quadrants, final_quadrants, final_image,
                   output_file, returned>>

Inpaint_with_retry ==
    /\ pc = "masked"
    /\ trace' = Append(trace, "inpaint")
    /\ \E response \in inpaint_with_stability_api(swapped_image, mask) :
          IF response.status_code # 200
          THEN /\ pc' = "failed"
               /\ error' = "Exception"
               /\ api_calls' = api_calls + 1
               /\ inpainted_image' = inpainted_image
          ELSE /\ pc' = "inpainted"
               /\ error' = error
               /\ api_calls' = api_calls + 2
               /\ inpainted_image' = response.image
    /\ UNCHANGED unit_vars
    /\ UNCHANGED <<original_image, quadrants, swapped_quadrants, swapped_image,
                   mask, inpainted_quadrants, final_quadrants, final_image,
                   output_file, returned>>

\* the one call of inpaint_with_stability_api: a non-200 response raises
Inpaint ==
    /\ pc = "masked"
    /\ api_calls' = api_calls + 1
    /\ trace' = Append(trace, "inpaint")
    /\ \E response \in inpaint_with_stability_api(swapped_image, mask) :
          IF response.status_code # 200
          THEN /\ pc' = "failed"
               /\ error' = "Exception"
               /\ inpainted_image' = inpainted_image
          ELSE /\ pc' = "inpainted"
               /\ error' = error
               /\ inpainted_image' = response.image
    /\ UNCHANGED unit_vars
    /\ UNCHANGED <<original_image, quadrants, swapped_quadrants, swapped_image,
                   mask, inpainted_quadrants, final_quadrants, final_image,
                   output_file, returned>>

SplitInpainted ==
    /\ pc = "inpainted"
    /\ inpainted_quadrants' = split_image_into_quadrants(inpainted_image)
    /\ pc' = "split2"
    /\ trace' = Append(trace, "split")
    /\ UNCHANGED unit_vars
    /\ UNCHANGED <<original_image, quadrants, swapped_quadrants, swapped_image,
                   mask, inpainted_image, final_quadrants, final_image,
                   output_file, returned, error, api_calls>>

SwapBack ==
    /\ pc = "split2"
    /\ final_quadrants' = swap_quadrants_diagonally(inpainted_quadrants)
    /\ pc' = "swapped2"
    /\ trace' = Append(trace, "swap")
    /\ UNCHANGED unit_vars
    /\ UNCHANGED <<original_image, quadrants, swapped_quadrants, swapped_image,
                   mask, inpainted_image, inpainted_quadrants, final_image,
                   output_file, returned, error, api_calls>>

CombineFinal ==
    /\ pc = "swapped2"
    /\ final_image' = combine_quadrants(final_quadrants, original_image.size)
    /\ pc' = "combined2"
    /\ trace' = Append(trace, "combine")
    /\ UNCHANGED unit_vars
    /\ UNCHANGED <<original_image, quadrants, swapped_quadrants, swapped_image,
                   mask, inpainted_image, inpainted_quadrants, final_quadrants,
                   output_file, returned, error, api_calls>>

\* final_image.save(output_image_path); return final_image
SaveFinal ==
    /\ pc = "combined2"
    /\ output_file' = final_image
    /\ returned' = final_image
    /\ pc' = "done"
    /\ trace' = Append(trace, "save")
    /\ UNCHANGED unit_vars
    /\ UNCHANGED <<original_image, quadrants, swapped_quadrants, swapped_image,
                   mask, inpainted_image, inpainted_quadrants, final_quadrants,
                   final_image, error, api_calls>>

PipeIdle ==
    /\ pc = "idle"
    /\ original_image = NoImage
    /\ quadrants = NoQuadrants
    /\ swapped_quadrants = NoQuadrants
    /\ swapped_image = NoImage
    /\ mask = NoImage
    /\ inpainted_image = NoImage
    /\ inpainted_quadrants = NoQuadrants
    /\ final_quadrants = NoQuadrants
    /\ final_image = NoImage
    /\ output_file = NoImage
    /\ returned = NoImage
    /\ error = "none"
    /\ api_calls = 0
    /\ trace = << >>

make_texture_seamless ==
    \/ CheckSquare
    \/ SplitOriginal
    \/ SwapOriginal
    \/ CombineSwapped
    \/ CreateMask
    \/ Inpaint
    \/ SplitInpainted
    \/ SwapBack
    \/ CombineFinal
    \/ SaveFinal

(* ------------------------------------- the helpers called on their own *)

UnitIdle ==
    /\ u_pc = "idle"
    /\ u_image = NoImage
    /\ u_width = MaskWidth
    /\ u_quadrants = NoQuadrants
    /\ u_swapped = NoQuadrants
    /\ u_swapped_twice = NoQuadrants
    /\ u_roundtrip = NoImage
    /\ u_swapped_image = NoImage
    /\ u_mask = NoImage

UnitInit ==
    /\ u_pc = "start"
    /\ u_image \in UNION {Images(size) : size \in SmallSizes}
    /\ u_width = MaskWidth
    /\ u_quadrants = NoQuadrants
    /\ u_swapped = NoQuadrants
    /\ u_swapped_twice = NoQuadrants
    /\ u_roundtrip = NoImage
    /\ u_swapped_image = NoImage
    /\ u_mask = NoImage

\* split_image_into_quadrants(image)
CallSplit ==
    /\ u_pc = "start"
    /\ u_quadrants' = split_image_into_quadrants(u_image)
    /\ u_pc' = "split"
    /\ UNCHANGED <<u_image, u_width, u_swapped, u_swapped_twice, u_roundtrip,
                   u_swapped_image, u_mask>>
    /\ UNCHANGED pipe_vars

\* combine_quadrants(split_image_into_quadrants(image), image.size)
CallCombine ==
    /\ u_pc = "split"
    /\ u_roundtrip' = combine_quadrants(u_quadrants, u_image.size)
    /\ u_pc' = "recombined"
    /\ UNCHANGED <<u_image, u_width, u_quadrants, u_swapped, u_swapped_twice,
                   u_swapped_image, u_mask>>
    /\ UNCHANGED pipe_vars

\* swap_quadrants_diagonally(quadrants)
CallSwap ==
    /\ u_pc = "recombined"
    /\ u_swapped' = swap_quadrants_diagonally(u_quadrants)
    /\ u_pc' = "swapped"
    /\ UNCHANGED <<u_image, u_width, u_quadrants, u_swapped_twice, u_roundtrip,
                   u_swapped_image, u_mask>>
    /\ UNCHANGED pipe_vars

\* swap_quadrants_diagonally(swap_quadrants_diagonally(quadrants))
CallSwapAgain ==
    /\ u_pc = "swapped"
    /\ u_swapped_twice' = swap_quadrants_diagonally(u_swapped)
    /\ u_pc' = "swapped_twice"
    /\ UNCHANGED <<u_image, u_width, u_quadrants, u_swapped, u_roundtrip,
                   u_swapped_image, u_mask>>
    /\ UNCHANGED pipe_vars

\* combine_quadrants(swapped_quadrants, image.size)
CallCombineSwapped ==
    /\ u_pc = "swapped_twice"
    /\ u_swapped_image' = combine_quadrants(u_swapped, u_image.size)
    /\ u_pc' = "shifted"
    /\ UNCHANGED <<u_image, u_width, u_quadrants, u_swapped, u_swapped_twice,
                   u_roundtrip, u_mask>>
    /\ UNCHANGED pipe_vars

\* create_center_mask(size, width) for a caller-chosen band width
CallCreateMask ==
    /\ u_pc = "shifted"
    /\ \E width \in 0 .. MaxBand :
          /\ u_width' = width
          /\ u_mask' = create_center_mask(u_image.size, width)
    /\ u_pc' = "masked"
    /\ UNCHANGED <<u_image, u_quadrants, u_swapped, u_swapped_twice,
                   u_roundtrip, u_swapped_image>>
    /\ UNCHANGED pipe_vars

(* -------------------------------------------------------- specifications *)

Init == PipeInit /\ UnitIdle

Next == make_texture_seamless

Spec == Init /\ [][Next]_vars

InitUnit == UnitInit /\ PipeIdle

NextUnit ==
    \/ CallSplit
    \/ CallCombine
    \/ CallSwap
    \/ CallSwapAgain
    \/ CallCombineSwapped
    \/ CallCreateMask

SpecUnit == InitUnit /\ [][NextUnit]_vars

(* ------------------------------------------------------------ properties *)

EvenSquare(image) ==
    /\ image.size[1] = image.size[2]
    /\ image.size[1] % 2 = 0

\* where the wrap-around shift by half the side carries position p
SwapPos(size, p) ==
    << (p[1] + size[1] \div 2) % size[1], (p[2] + size[2] \div 2) % size[2] >>

ExpectedTrace ==
    << "check", "split", "swap", "combine", "mask", "inpaint",
       "split", "swap", "combine", "save" >>

\* C1: on an image whose width differs from its height the run stops at the
\* squareness check with a validation error: no transform has run, the
\* external inpainting call is never issued and no output image is saved.
C1_NonSquareFailsFast ==
    original_image.size[1] # original_image.size[2] =>
        /\ pc \in {"start", "failed"}
        /\ pc = "failed" => error = "ValueError"
        /\ api_calls = 0
        /\ \A i \in 1 .. Len(trace) : trace[i] = "check"
        /\ quadrants = NoQuadrants
        /\ swapped_image = NoImage
        /\ output_file = NoImage
        /\ returned = NoImage

C1_Witness ==
    /\ original_image.size[1] # original_image.size[2]
    /\ pc = "failed"
    /\ error = "ValueError"
    /\ trace = <<"check">>

\* C2: when the external call does not succeed the run aborts with the error:
\* step 5 never runs, nothing is written or returned, the call is made once.
C2_FailureAborts ==
    error = "Exception" =>
        /\ pc = "failed"
        /\ api_calls = 1
        /\ trace = SubSeq(ExpectedTrace, 1, 6)
        /\ inpainted_image = NoImage
        /\ inpainted_quadrants = NoQuadrants
        /\ final_quadrants = NoQuadrants
        /\ final_image = NoImage
        /\ output_file = NoImage
        /\ returned = NoImage

C2_Witness ==
    /\ error = "Exception"
    /\ pc = "failed"
    /\ api_calls = 1
    /\ swapped_image # NoImage
    /\ mask # NoImage

\* C3: create_center_mask(size, width) has the given size and masks pixel
\* (x, y) exactly when y is in [half_height - half_band, half_height + half_band)
\* or x is in [half_width - half_band, half_width + half_band); every other
\* pixel is 0.
C3_HalfOpenBands ==
    u_pc = "masked" =>
        LET half_width  == u_image.size[1] \div 2
            half_height == u_image.size[2] \div 2
            half_band   == u_width \div 2
            InBand(p) ==
                \/ half_height - half_band <= p[2] /\ p[2] < half_height + half_band
                \/ half_width - half_band <= p[1] /\ p[1] < half_width + half_band
        IN  /\ u_mask.size = u_image.size
            /\ DOMAIN u_mask.px = Pos(u_image.size)
            /\ \A p \in Pos(u_image.size) :
                  u_mask.px[p] = (IF InBand(p) THEN MASKED ELSE 0)

\* C4: for an even-sided square image and an inpainter that returns its input
\* unchanged, the image returned and saved is pixel-identical to the input.
C4_NoOpRoundTrip ==
    (/\ pc = "done"
     /\ EvenSquare(original_image)
     /\ inpainted_image = swapped_image) =>
        /\ returned = original_image
        /\ output_file = original_image

C4_Witness ==
    /\ pc = "done"
    /\ EvenSquare(original_image)
    /\ inpainted_image = swapped_image
    /\ swapped_image # original_image
    /\ returned = original_image
    /\ \E p \in Pos(mask.size) : mask.px[p] # MASKED

C6_SwapInvolution ==
    /\ u_pc \in {"swapped", "swapped_twice", "shifted", "masked"} =>
          u_swapped = <<u_quadrants[4], u_quadrants[3], u_quadrants[2], u_quadrants[1]>>
    /\ u_pc \in {"swapped_twice", "shifted", "masked"} =>
          /\ Len(u_swapped_twice) = 4
          /\ \A i \in 1 .. 4 : u_swapped_twice[i] = u_quadrants[i]

C6_Witness ==
    /\ u_pc = "swapped_twice"
    /\ u_swapped_twice = u_quadrants
    /\ u_swapped # u_quadrants
    /\ \A i, j \in 1 .. 4 : i # j => u_quadrants[i] # u_quadrants[j]

C8_OneCallInOrder ==
    /\ Len(trace) <= Len(ExpectedTrace)
    /\ trace = SubSeq(ExpectedTrace, 1, Len(trace))
    /\ api_calls = Cardinality({i \in 1 .. Len(trace) : trace[i] = "inpaint"})
    /\ pc = "done" =>
          /\ trace = ExpectedTrace
          /\ api_calls = 1
    /\ output_file # NoImage =>
          /\ pc = "done"
          /\ error = "none"
          /\ api_calls = 1
          /\ inpainted_image # NoImage

C8_Witness ==
    /\ pc = "done"
    /\ api_calls = 1
    /\ trace = ExpectedTrace
    /\ output_file = final_image
    /\ output_file # NoImage

\* C9: for every square image, odd sides included, and an inpainter that
\* returns its input unchanged, the result has the input's dimensions and is
\* pixel-identical to the input.
C9_AnySideRoundTrip ==
    (/\ pc = "done"
     /\ original_image.size[1] = original_image.size[2]
     /\ inpainted_image = swapped_image) =>
        /\ returned.size = original_image.size
        /\ returned = original_image

\* C10: for an even-sided square image of side w the first split/swap/combine
\* is the wrap-around shift by w/2, so the tile-edge rows and columns 0 and
\* w-1 land on rows and columns w/2 and w/2 - 1, which create_center_mask
\* masks whenever the band width is at least 2.
C10_ShiftIntoCross ==
    EvenSquare(u_image) =>
        LET w    == u_image.size[1]
            half == w \div 2
        IN  /\ u_pc \in {"shifted", "masked"} =>
                /\ u_swapped_image.size = u_image.size
                /\ \A p \in Pos(u_image.size) :
                      u_swapped_image.px[<<(p[1] + half) % w, (p[2] + half) % w>>]
                          = u_image.px[p]
                /\ \A k \in 0 .. w - 1 :
                      /\ u_swapped_image.px[<<(k + half) % w, half>>] = u_image.px[<<k, 0>>]
                      /\ u_swapped_image.px[<<(k + half) % w, half - 1>>] = u_image.px[<<k, w - 1>>]
                      /\ u_swapped_image.px[<<half, (k + half) % w>>] = u_image.px[<<0, k>>]
                      /\ u_swapped_image.px[<<half - 1, (k + half) % w>>] = u_image.px[<<w - 1, k>>]
            /\ (u_pc = "masked" /\ u_width >= 2) =>
                \A k \in 0 .. w - 1 :
                    /\ u_mask.px[<<k, half>>] = MASKED
                    /\ u_mask.px[<<k, half - 1>>] = MASKED
                    /\ u_mask.px[<<half, k>>] = MASKED
                    /\ u_mask.px[<<half - 1, k>>] = MASKED

C10_Witness ==
    /\ u_pc = "masked"
    /\ u_width = 2
    /\ u_image = Labelled(<<6, 6>>)
    /\ u_swapped_image # u_image
    /\ u_mask.px[<<3, 0>>] = MASKED
    /\ u_mask.px[<<0, 0>>] # MASKED

====
